---- MODULE Spec2Model ----
\* A model of core/types/rollup_l1_cost.go: the L1 data fee of a rollup
\* transaction (newL1CostFunc) and the FastLZ length estimator it uses from
\* the Eclipse upgrade on (FlzCompressLen).
\*
\* Number representation.  TLC's integers are 32-bit signed, the code's are
\* uint32, uint64 and big.Int:
\*   - a uint32 that the code uses as a number (b, a, i, d, r, l, n) is held
\*     as the signed reading of its 32 bits: 2^32 - k is held as -k.  Sums and
\*     differences of such values are then the code's wrapping sums and
\*     differences, and ULt is the code's unsigned order;
\*   - a uint32 that the code uses as a bit pattern (the 4-byte window read by
\*     u32 and what is derived from it) is held as its four bytes, lowest
\*     first;
\*   - uint64 and big.Int values stay far below 2^31 for the inputs drawn here.
EXTENDS Integers, Sequences, FiniteSets, TLC

VARIABLES ib, st, costFn, payload, result, resultV1, calls

vars == <<ib, st, costFn, payload, result, resultV1, calls>>

\* ---------------------------------------------------------------- constants

\* make([]uint32, 8192): the number of hash-table entries
HashSize == 8192
\* d < 8192: the largest accepted match distance is one less
MaxDistance == 8192
\* i < b-9: the scan stops this many bytes before b
Margin == 9
\* params.TxDataZeroGas, the gas of a zero byte of transaction data
TxDataZeroGas == 4
\* params.TxDataNonZeroGasEIP2028, the gas of a non-zero byte since EIP-2028
TxDataNonZeroGasEIP2028 == 16
\* the pre-Regolith allowance of non-zero bytes
LegacyExtraBytes == 68
\* big.NewInt(1_000_000)
Million == 1000000

\* ---------------------------------------------------------- uint32 helpers

\* x < y on uint32 values held as signed readings
ULt(x, y) == IF (x >= 0) = (y >= 0) THEN x < y ELSE y < 0

\* ib[k] is in range: 0 <= k < len(ib), k a uint32 held as a signed reading
InRange(data, k) == k >= 0 /\ k < Len(data)

\* ib[k], the code's indices starting at 0
ByteAt(data, k) == data[k + 1]

\* ------------------------------------------- the closures of FlzCompressLen

\* u32 reads ib[i], ib[i+1], ib[i+2], ib[i+3]; it panics when one is out of range
U32Ok(data, i) == \A k \in 0..3 : InRange(data, i + k)

\* the little-endian word at i, as its four bytes
u32(data, i) == <<ByteAt(data, i), ByteAt(data, i + 1),
                  ByteAt(data, i + 2), ByteAt(data, i + 3)>>

\* w & 0xffffff
And24(w) == <<w[1], w[2], w[3], 0>>

\* w >> 8
Shr8(w) == <<w[2], w[3], w[4], 0>>

\* m + 1, the value no masked window equals
NoMatch == <<0, 0, 0, 1>>

\* ((2654435769 * x) >> 19) & 8191, the product taken modulo 2^32.
\* 2654435769 = 0x9E3779B9 is multiplied byte by byte (185, 121, 55, 158 are
\* its bytes, lowest first); bits 19..31 of the product are bits 3..7 of its
\* third byte and its fourth byte.
hash(w) ==
  LET p0 == 185 * w[1]
      p1 == 185 * w[2] + 121 * w[1]
      p2 == 185 * w[3] + 121 * w[2] + 55 * w[1]
      p3 == 185 * w[4] + 121 * w[3] + 55 * w[2] + 158 * w[1]
      t1 == p1 + (p0 \div 256)
      t2 == p2 + (t1 \div 256)
      t3 == p3 + (t2 \div 256)
  IN  (((t3 % 256) * 32) + ((t2 % 256) \div 8)) % HashSize

\* literals without the byte that opens a partial run
literalsNoOpener(n, r) == n + 33 * (r \div 32) + (r % 32)

\* literals(r): the cost of a run of r unmatched bytes, added to n.  r is
\* the length of a run of bytes of the input wherever the code calls it.
literals(n, r) ==
  LET q == 33 * (r \div 32)
      rem == r % 32
  IN  IF rem # 0 THEN n + q + rem + 1 ELSE n + q

\* ht := make([]uint32, 8192): every entry zero.  The table is held as the
\* entries written so far; an entry not written reads as zero.
NewTable == <<>>

HtGet(ht, h) == IF h \in DOMAIN ht THEN ht[h] ELSE 0

HtPut(ht, h, v) == [k \in DOMAIN ht \cup {h} |-> IF k = h THEN v ELSE ht[k]]

\* ------------------------------------------------------------ FlzCompressLen

\* The locals of one run of FlzCompressLen after lines 204-211.  pc is the
\* position of the run: "head" (the test of the outer loop), "scan" (one pass
\* of the inner loop), "match" (the inner loop was left with s == c, line
\* 247 is next), "tail" (the outer loop was left, line 268 is next), "done"
\* (returned n) and "panic" (an index out of range stopped the run).
\* segs and prev are history: the runs charged so far, in order, as
\* [lit, at, len, from], and the cursor at the previous test of the outer loop.
FlzStart(data) ==
  [pc |-> "head", n |-> 0, b |-> Len(data) - 4, ht |-> NewTable,
   a |-> 0, i |-> 2, d |-> 0, r |-> 0, segs |-> <<>>, prev |-> 0]

Panic(s) == [s EXCEPT !.pc = "panic"]

\* ScanLimit with the margin added instead of subtracted
ScanLimitAdded(b) == b + Margin

\* b-9, the bound of the scan
ScanLimit(b) == b - Margin

\* for i < b-9 {
HeadStep(data, s) ==
  IF ULt(s.i, ScanLimit(s.b))
  THEN [s EXCEPT !.pc = "scan", !.prev = s.i]
  ELSE [s EXCEPT !.pc = "tail", !.prev = s.i]

\* Near without the test of the distance
NearAlways(d) == TRUE

\* d < 8192
Near(d) == ULt(d, MaxDistance)

\* One pass of the inner loop (lines 227-242) and, when it is left, the test
\* of line 244.
ScanStep(data, s) ==
  IF ~U32Ok(data, s.i) THEN Panic(s)
  ELSE
    LET w  == And24(u32(data, s.i))
        h  == hash(w)
        r1 == HtGet(s.ht, h)
        d1 == s.i - r1
        s1 == [s EXCEPT !.r = r1, !.d = d1, !.ht = HtPut(s.ht, h, s.i)]
    IN  IF Near(d1) /\ ~U32Ok(data, r1) THEN Panic(s1)
        ELSE
          LET c == IF Near(d1) THEN And24(u32(data, r1)) ELSE NoMatch
          IN  IF ~ULt(s.i, ScanLimit(s.b)) THEN [s1 EXCEPT !.pc = "tail"]
              ELSE IF w # c THEN [s1 EXCEPT !.i = s.i + 1]
              ELSE IF ~ULt(s.i + 1, ScanLimit(s.b))
                   THEN [s1 EXCEPT !.i = s.i + 1, !.pc = "tail"]
                   ELSE [s1 EXCEPT !.i = s.i + 1, !.pc = "match"]

\* the loop of line 252 stops before pass l
ExtStops(data, b, r, i, l) ==
  \/ ~ULt(l, b - i)
  \/ ~InRange(data, r + l)
  \/ ~InRange(data, i + l)
  \/ ByteAt(data, r + l) # ByteAt(data, i + l)

\* l after the loop of lines 251-254: the first l >= 3 at which it stops (it
\* stops at the latest when i+l is out of range)
MatchLen(data, b, r, i) ==
  CHOOSE l \in 3..(Len(data) + 3) :
    /\ ExtStops(data, b, r, i, l)
    /\ \A k \in 3..(l - 1) : ~ExtStops(data, b, r, i, k)

\* the loop of line 252 stops by reading ib[r+l] or ib[i+l] out of range
ExtPanics(data, b, r, i) ==
  LET l == MatchLen(data, b, r, i)
  IN  ULt(l, b - i) /\ (~InRange(data, r + l) \/ ~InRange(data, i + l))

\* n += 3 * (1 + (l-3)/262); if l < 9 { n-- }
MatchCost(n, l) ==
  LET n1 == n + 3 * (1 + ((l - 3) \div 262))
  IN  IF l < 9 THEN n1 - 1 ELSE n1

\* Lines 247-266: the match found at i-1 is charged and the cursor moved
\* past it.
MatchStep(data, s) ==
  LET i0 == s.i - 1
      s1 == IF ULt(s.a, i0)
            THEN [s EXCEPT !.n = literals(s.n, i0 - s.a),
                           !.segs = Append(s.segs,
                              [lit |-> TRUE, at |-> s.a, len |-> i0 - s.a,
                               from |-> 0])]
            ELSE s
  IN  IF ExtPanics(data, s.b, s.r, i0) THEN Panic([s1 EXCEPT !.i = i0])
      ELSE
        LET l  == MatchLen(data, s.b, s.r, i0)
            i1 == i0 + l - 2
        IN  IF ~U32Ok(data, i1) THEN Panic([s1 EXCEPT !.i = i1])
            ELSE
              LET w   == u32(data, i1)
                  ht1 == HtPut(s.ht, hash(And24(w)), i1)
                  ht2 == HtPut(ht1, hash(Shr8(w)), i1 + 1)
              IN  [s1 EXCEPT !.pc = "head", !.i = i1 + 2, !.a = i1 + 2,
                             !.d = s.d - 1, !.n = MatchCost(s1.n, l),
                             !.ht = ht2,
                             !.segs = Append(s1.segs,
                                [lit |-> FALSE, at |-> i0, len |-> l,
                                 from |-> s.r])]

\* literals(b + 4 - a); return n
TailStep(data, s) ==
  LET r == s.b + 4 - s.a
  IN  [s EXCEPT !.pc = "done", !.n = literals(s.n, r),
                !.segs = Append(s.segs,
                   [lit |-> TRUE, at |-> s.a, len |-> r, from |-> 0])]

FlzStep(data, s) ==
  CASE s.pc = "head"  -> HeadStep(data, s)
    [] s.pc = "scan"  -> ScanStep(data, s)
    [] s.pc = "match" -> MatchStep(data, s)
    [] s.pc = "tail"  -> TailStep(data, s)
    [] OTHER          -> s

FlzEnded(s) == s.pc \in {"done", "panic"}

RECURSIVE FlzRun(_, _)
FlzRun(data, s) == IF FlzEnded(s) THEN s ELSE FlzRun(data, FlzStep(data, s))

\* FlzCompressLen(ib): what a call ends in, and the value it returns
FlzCompressLen(data) ==
  LET s == FlzRun(data, FlzStart(data))
  IN  IF s.pc = "done" THEN [ok |-> TRUE, n |-> s.n] ELSE [ok |-> FALSE, n |-> 0]

\* ------------------------------------------------------------ newL1CostFunc

\* the bytes of data that are zero (lines 178-180)
CountZeroes(data) == Cardinality({k \in 1..Len(data) : data[k] = 0})

\* CountOnes that takes every byte for a non-zero byte
CountOnesAllBytes(data) == Len(data)

\* the bytes of data that are not zero (lines 181-183)
CountOnes(data) == Cardinality({k \in 1..Len(data) : data[k] # 0})

\* RollupGas that charges the allowance of 68 bytes whatever isRegolith is
RollupGasAlwaysLegacy(isRegolith, zeroes, ones) ==
  zeroes * TxDataZeroGas + (ones + LegacyExtraBytes) * TxDataNonZeroGasEIP2028

\* lines 185-190: the gas of the counted bytes
RollupGas(isRegolith, zeroes, ones) ==
  IF isRegolith
  THEN zeroes * TxDataZeroGas + ones * TxDataNonZeroGasEIP2028
  ELSE zeroes * TxDataZeroGas + (ones + LegacyExtraBytes) * TxDataNonZeroGasEIP2028

\* GasBranch that tests isRegolith before isEclipse
GasBranchRegolithFirst(f) ==
  IF f.isRegolith THEN "regolith" ELSE IF f.isEclipse THEN "eclipse" ELSE "legacy"

\* the branch of lines 173-191 that a call takes
GasBranch(f) ==
  IF f.isEclipse THEN "eclipse" ELSE IF f.isRegolith THEN "regolith" ELSE "legacy"

\* l1Cost.Mul(l1GasUsed, l1BaseFee).Mul(l1Cost, scalar).Div(l1Cost, 1_000_000);
\* the operands are not negative, so that big.Int's Div is the floor
L1Cost(l1GasUsed, l1BaseFee, scalar) ==
  ((l1GasUsed * l1BaseFee) * scalar) \div Million

\* newL1CostFunc: the values the returned function closes over.  Optimism is
\* config.Optimism != nil; isRegolith and isEclipse are config.IsRegolith
\* and config.IsEclipse at the block time.
newL1CostFunc(optimism, isRegolith, isEclipse, l1BaseFee, overhead, scalar) ==
  [Optimism |-> optimism, isRegolith |-> isRegolith, isEclipse |-> isEclipse,
   l1BaseFee |-> l1BaseFee, overhead |-> overhead, scalar |-> scalar]

\* lines 193-197, from the gas of the payload
FeeAndGas(f, gas, branch) ==
  LET l1GasUsed == gas + f.overhead
  IN  [outcome |-> "pair", fee |-> L1Cost(l1GasUsed, f.l1BaseFee, f.scalar),
       gasUsed |-> l1GasUsed, branch |-> branch]

\* lines 185-190 for the payload data
CountedGas(f, data) == RollupGas(f.isRegolith, CountZeroes(data), CountOnes(data))

\* The function newL1CostFunc returns, applied to l1CostData.data (lines
\* 167-198).  outcome is "nil" (nil, nil), "pair" (fee, gasUsed) or "panic"
\* (FlzCompressLen panicked); branch is the gas formula that ran.
l1CostFunc(f, data) ==
  IF ~f.Optimism THEN [outcome |-> "nil", branch |-> "none"]
  ELSE IF GasBranch(f) = "eclipse"
  THEN LET z == FlzCompressLen(data)
       IN  IF z.ok THEN FeeAndGas(f, z.n * TxDataNonZeroGasEIP2028, "eclipse")
           ELSE [outcome |-> "panic", branch |-> "eclipse"]
  ELSE FeeAndGas(f, CountedGas(f, data), GasBranch(f))

\* NewL1CostData of lines 124-128 keeps the bytes
NewL1CostData(data) == [data |-> data]

\* NewL1CostData of lines 30-39 counts the bytes
NewL1CostDataV1(data) ==
  [zeroes |-> Cardinality({k \in DOMAIN data : data[k] = 0}),
   ones |-> Cardinality({k \in DOMAIN data : data[k] # 0})]

\* the function the newL1CostFunc of lines 75-93 returns, applied to the counts
l1CostFuncV1(f, tx) ==
  IF ~f.Optimism THEN [outcome |-> "nil"]
  ELSE
    LET gas0 == tx.zeroes * TxDataZeroGas
        gas  == IF f.isRegolith
                THEN gas0 + tx.ones * TxDataNonZeroGasEIP2028
                ELSE gas0 + (tx.ones + LegacyExtraBytes) * TxDataNonZeroGasEIP2028
        l1GasUsed == gas + f.overhead
    IN  [outcome |-> "pair",
         fee |-> ((l1GasUsed * f.l1BaseFee) * f.scalar) \div Million,
         gasUsed |-> l1GasUsed]

\* -------------------------------------------------------------------- inputs

\* the longest input of the family below
MaxLen == 28
\* the longest word repeated in an input
MaxPeriod == 3
\* the length of the distinct bytes that end a long input
TailLen == 40

\* the words over {0, 1} of length 1..MaxPeriod
Words == UNION {[1..p -> {0, 1}] : p \in 1..MaxPeriod}

\* the word w repeated to length n, with byte 7 at position q (q = 0: nowhere)
Repeated(w, n, q) ==
  [k \in 1..n |-> IF k = q THEN 7 ELSE w[((k - 1) % Len(w)) + 1]]

ShortInputs == {Repeated(w, n, q) : w \in Words, n \in 0..MaxLen, q \in 0..MaxLen}

\* 9 9 1 2 3, g zero bytes, 1 2 3, then TailLen distinct bytes: the window
\* 1 2 3 is seen at offset 2 and again at offset g + 5
LongInput(g) ==
  <<9, 9, 1, 2, 3>> \o [k \in 1..g |-> 0] \o <<1, 2, 3>>
    \o [k \in 1..TailLen |-> 3 + k]

\* the second window is MaxDistance - 1, MaxDistance and MaxDistance + 1 away
LongInputs == {LongInput(MaxDistance + e - 3) : e \in {-1, 0, 1}}

Inputs == ShortInputs \cup LongInputs

\* ------------------------------------------------ one run of FlzCompressLen

NoCall == [pc |-> "idle"]

NoResult == [outcome |-> "none"]

NoCostFn == [Optimism |-> FALSE, isRegolith |-> FALSE, isEclipse |-> FALSE,
             l1BaseFee |-> 0, overhead |-> 0, scalar |-> 0]

Init ==
  /\ ib \in Inputs
  /\ st = FlzStart(ib)
  /\ costFn = NoCostFn
  /\ payload = <<>>
  /\ result = NoResult
  /\ resultV1 = NoResult
  /\ calls = <<>>

FlzHead ==
  /\ st.pc = "head"
  /\ st' = HeadStep(ib, st)
  /\ UNCHANGED <<ib, costFn, payload, result, resultV1, calls>>

FlzScan ==
  /\ st.pc = "scan"
  /\ st' = ScanStep(ib, st)
  /\ UNCHANGED <<ib, costFn, payload, result, resultV1, calls>>

FlzMatch ==
  /\ st.pc = "match"
  /\ st' = MatchStep(ib, st)
  /\ UNCHANGED <<ib, costFn, payload, result, resultV1, calls>>

FlzTail ==
  /\ st.pc = "tail"
  /\ st' = TailStep(ib, st)
  /\ UNCHANGED <<ib, costFn, payload, result, resultV1, calls>>

Next == FlzHead \/ FlzScan \/ FlzMatch \/ FlzTail

Spec == Init /\ [][Next]_vars

\* ------------------------------------------------- claims on FlzCompressLen

\* the cost of r bytes charged as one literal run
RunCost(r) == 33 * (r \div 32) + (IF r % 32 # 0 THEN (r % 32) + 1 ELSE 0)

\* the cost of one match of length l
MatchCharge(l) == 3 * (1 + ((l - 3) \div 262)) - (IF l < 9 THEN 1 ELSE 0)

SegCost(g) == IF g.lit THEN RunCost(g.len) ELSE MatchCharge(g.len)

RECURSIVE SumCost(_)
SumCost(gs) == IF gs = <<>> THEN 0 ELSE SegCost(Head(gs)) + SumCost(Tail(gs))

Matches(gs) == {k \in 1..Len(gs) : ~gs[k].lit}

\* the runs follow one another from offset 0 to offset n
Tiles(gs, n) ==
  /\ gs # <<>>
  /\ gs[1].at = 0
  /\ \A k \in 1..(Len(gs) - 1) : gs[k + 1].at = gs[k].at + gs[k].len
  /\ gs[Len(gs)].at + gs[Len(gs)].len = n
  /\ \A k \in 1..Len(gs) : gs[k].len >= (IF gs[k].lit THEN 1 ELSE 3)

\* C3: an input of 0 to 12 bytes makes FlzCompressLen return the literal-only
\* cost of the whole input, with no match sought and no read at or past the
\* end of the input.
C3_ShortInputIsLiteralOnly ==
  (Len(ib) <= 12 /\ FlzEnded(st)) =>
     /\ st.pc = "done"
     /\ st.n = RunCost(Len(ib))
     /\ DOMAIN st.ht = {}

\* C6: a match that is accepted at cursor i against the table entry r has
\* 1 <= i - r <= 8191 and equal bytes at r and i, three when it is accepted
\* and all l when it is charged; an entry 8192 or more away is never accepted.
C6_MatchWithinDistance ==
  /\ st.pc = "match" =>
       /\ (st.i - 1) - st.r >= 1
       /\ (st.i - 1) - st.r <= MaxDistance - 1
       /\ st.d = (st.i - 1) - st.r
       /\ \A k \in 0..2 : ByteAt(ib, st.r + k) = ByteAt(ib, st.i - 1 + k)
  /\ \A m \in Matches(st.segs) :
       LET g == st.segs[m]
       IN  /\ g.at - g.from >= 1
           /\ g.at - g.from <= MaxDistance - 1
           /\ \A k \in 0..(g.len - 1) :
                ByteAt(ib, g.from + k) = ByteAt(ib, g.at + k)

\* C6 witness: after a match was charged, the scan met a table entry exactly
\* 8192 away whose window equals the window at the cursor, and went on.
C6_FarWindowPassedOver ==
  /\ st.pc = "scan"
  /\ Matches(st.segs) # {}
  /\ st.d = MaxDistance
  /\ st.i - 1 - st.r = MaxDistance
  /\ And24(u32(ib, st.r)) = And24(u32(ib, st.i - 1))

\* C8: for an input of at least 13 bytes the literal runs and matches charged
\* tile the input in order, the last run being the len - a bytes after the
\* last match, and the value returned is the sum of their costs; with no
\* match it is the literal-only cost of the input.
C8_ParseTilesInput ==
  (Len(ib) >= 13 /\ st.pc = "done") =>
     LET gs == st.segs
     IN  /\ Tiles(gs, Len(ib))
         /\ gs[Len(gs)].lit
         /\ gs[Len(gs)].at = st.a
         /\ gs[Len(gs)].len = Len(ib) - st.a
         /\ gs[Len(gs)].len >= 4
         /\ st.n = SumCost(gs)
         /\ (Matches(gs) = {} => st.n = RunCost(Len(ib)))

\* C8 witness: a run that returned after two matches or more with a literal
\* run between two of them.
C8_TwoMatchesAndLiterals ==
  /\ Len(ib) >= 13
  /\ st.pc = "done"
  /\ Cardinality(Matches(st.segs)) >= 2
  /\ \E k \in 2..(Len(st.segs) - 1) :
       st.segs[k].lit /\ ~st.segs[k - 1].lit /\ ~st.segs[k + 1].lit

\* what C9 says of every state of a run on an input of at least 13 bytes
C9_LoopInvariant ==
  Len(ib) >= 13 =>
     /\ st.pc # "panic"
     /\ st.b = Len(ib) - 4
     /\ st.b - 9 >= 0
     /\ st.pc = "head" =>
          /\ st.a <= st.i
          /\ st.i <= Len(ib) - 4
          /\ st.prev < st.i
          /\ \A h \in DOMAIN st.ht : st.ht[h] < st.i
          /\ st.segs # <<>> =>
               LET g == st.segs[Len(st.segs)]
               IN  ~g.lit /\ g.len >= 3 /\ st.i = g.at + g.len
     /\ st.pc = "scan" => st.i + 3 < Len(ib)
     /\ st.pc = "match" => st.b - (st.i - 1) >= 3 /\ st.r + 3 < Len(ib)
     /\ st.pc \in {"tail", "done"} => st.i >= Len(ib) - 13
     /\ st.pc = "tail" => st.b + 4 - st.a >= 0

\* what is left of a run: the bytes after the cursor, then the position
Rank(s) ==
  4 * (Len(ib) - s.i)
    + (CASE s.pc = "head" -> 4 [] s.pc = "scan" -> 3 [] s.pc = "match" -> 2
         [] s.pc = "tail" -> 1 [] OTHER -> 0)

\* C9: on an input of at least 13 bytes FlzCompressLen returns: at each test
\* of the outer loop a <= i <= len-4, every table entry is below i, i is past
\* its value at the previous test and, after a match, past that match of
\* l >= 3 bytes; no read is out of range and b-9, b-i and b+4-a do not wrap;
\* a run that has not returned is at a position that has a step, and every
\* step brings it nearer to the return.
C9_FlzTerminates ==
  /\ []C9_LoopInvariant
  /\ [](Len(ib) >= 13 => st.pc \in {"head", "scan", "match", "tail", "done"})
  /\ [][Len(ib) >= 13 => (Rank(st') < Rank(st) /\ Rank(st') >= 0)]_vars

\* C9 witness: the outer loop is tested again after two matches.
C9_LoopAfterTwoMatches ==
  /\ Len(ib) >= 13
  /\ st.pc = "head"
  /\ Cardinality(Matches(st.segs)) >= 2
  /\ st.i < st.b - 9

\* ------------------------------------------------- calls of the cost function

\* the largest l1BaseFee drawn
MaxBaseFee == 3
\* the largest overhead drawn
MaxOverhead == 188

\* MarshalBinary of the transaction of the test: nonce 0, gas price 0, gas 0,
\* to 095e7baea6a6c7c4c2dfeb977efac326af552d87, value 0, no data, no
\* signature; 30 bytes, none of them zero
EmptyTxData ==
  <<221, 128, 128, 128, 148, 9, 94, 123, 174, 166, 166, 199, 196, 194, 223,
    235, 151, 126, 250, 195, 38, 175, 85, 45, 135, 128, 128, 128, 128, 128>>

Payloads ==
  {Repeated(w, n, 0) : w \in Words, n \in {0, 1, 12, 13, MaxLen - 8, MaxLen}}
    \cup {EmptyTxData}

\* no l1GasUsed of a payload above is larger
GasUsedCap ==
  ((IF MaxLen > Len(EmptyTxData) THEN MaxLen ELSE Len(EmptyTxData))
     + LegacyExtraBytes) * TxDataNonZeroGasEIP2028 + MaxOverhead

\* The closures drawn.  big.Int is unbounded and TLC's integers are not: the
\* oracle values are those whose product with any l1GasUsed is below 2^31.
CostFns ==
  {f \in {newL1CostFunc(o, r, e, bf, ov, sc) :
            o \in BOOLEAN, r \in BOOLEAN, e \in BOOLEAN, bf \in 0..MaxBaseFee,
            ov \in {0, 1, MaxOverhead},
            sc \in {0, 1, 684, Million - 1, Million, Million + (Million \div 2)}} :
     f.l1BaseFee * f.scalar <= 2147483647 \div GasUsedCap}

InitCost ==
  /\ costFn \in CostFns
  /\ payload = <<>>
  /\ result = NoResult
  /\ resultV1 = NoResult
  /\ ib = <<>>
  /\ st = NoCall
  /\ calls = <<>>

\* f(l1CostData): one call of the function newL1CostFunc returned, and one of
\* the function its earlier version returned, on the same transaction bytes
CostCall ==
  /\ result.outcome = "none"
  /\ \E data \in Payloads :
       /\ payload' = data
       /\ result' = l1CostFunc(costFn, NewL1CostData(data).data)
       /\ resultV1' = l1CostFuncV1(costFn, NewL1CostDataV1(data))
  /\ UNCHANGED <<ib, st, costFn, calls>>

\* the caller has taken what the call returned; the closure is called again
CostReturn ==
  /\ result.outcome # "none"
  /\ payload' = <<>>
  /\ result' = NoResult
  /\ resultV1' = NoResult
  /\ UNCHANGED <<ib, st, costFn, calls>>

NextCost == CostCall \/ CostReturn

SpecCost == InitCost /\ [][NextCost]_vars

\* ------------------------------------------------ claims on the cost function

ZeroBytes(data) == {k \in 1..Len(data) : data[k] = 0}

NonZeroBytes(data) == {k \in 1..Len(data) : data[k] # 0}

Called == result.outcome # "none"

\* C1: with the feature gate on the call returns l1GasUsed = gas + overhead
\* and fee = floor(l1GasUsed * l1BaseFee * scalar / 1_000_000), for every
\* payload and all oracle values.
C1_FeeIsFlooredProduct ==
  (Called /\ costFn.Optimism) =>
     /\ result.outcome = "pair"
     /\ result.gasUsed >= costFn.overhead
     /\ result.fee =
          (result.gasUsed * costFn.l1BaseFee * costFn.scalar) \div Million

\* C2: one gas formula is applied, Eclipse before Regolith before the legacy
\* one, and with Eclipse on the outcome does not depend on isRegolith.
C2_OneGasFormula ==
  (Called /\ costFn.Optimism) =>
     LET z    == Cardinality(ZeroBytes(payload))
         o    == Cardinality(NonZeroBytes(payload))
         flz  == FlzCompressLen(payload)
         flip == [costFn EXCEPT !.isRegolith = ~costFn.isRegolith]
     IN  /\ result.branch =
              (IF costFn.isEclipse THEN "eclipse"
               ELSE IF costFn.isRegolith THEN "regolith" ELSE "legacy")
         /\ result.outcome = "panic" => (costFn.isEclipse /\ ~flz.ok)
         /\ result.outcome = "pair" =>
              result.gasUsed - costFn.overhead =
                (IF costFn.isEclipse THEN flz.n * 16
                 ELSE IF costFn.isRegolith THEN z * 4 + o * 16
                 ELSE z * 4 + (o + 68) * 16)
         /\ costFn.isEclipse => result = l1CostFunc(flip, payload)

\* C2 witness: Eclipse and Regolith are both on and the call returned the
\* estimate of a payload that compresses.
C2_EclipseOverRegolith ==
  /\ costFn.Optimism /\ costFn.isEclipse /\ costFn.isRegolith
  /\ result.outcome = "pair"
  /\ ZeroBytes(payload) # {} /\ NonZeroBytes(payload) # {}
  /\ result.gasUsed - costFn.overhead < 16 * Len(payload)

\* C4: with the feature gate off the call returns (nil, nil) and runs no gas
\* formula; with the gate on it returns a pair.
C4_GateDecidesOutcome ==
  Called =>
     /\ ~costFn.Optimism => (result.outcome = "nil" /\ result.branch = "none")
     /\ costFn.Optimism => result.outcome = "pair"

\* C5: before Eclipse, with l1BaseFee = 1, overhead = 1, scalar = 1_000_000,
\* the fee is l1GasUsed = zeroes*4 + ones*16 + 1 after Regolith and 1088 more
\* before it: 481 and 1569 for the transaction without data.
C5_ReferenceFees ==
  (/\ Called /\ costFn.Optimism /\ ~costFn.isEclipse
   /\ costFn.l1BaseFee = 1 /\ costFn.overhead = 1 /\ costFn.scalar = 1000000) =>
     LET z == Cardinality(ZeroBytes(payload))
         o == Cardinality(NonZeroBytes(payload))
     IN  /\ result.outcome = "pair"
         /\ result.fee = result.gasUsed
         /\ result.fee = z * 4 + o * 16 + 1 + (IF costFn.isRegolith THEN 0 ELSE 1088)
         /\ payload = EmptyTxData =>
              /\ z * 4 + o * 16 = 480
              /\ result.fee = (IF costFn.isRegolith THEN 481 ELSE 1569)

\* C5 witness: the fee of the transaction without data before Regolith.
C5_EmptyTxBeforeRegolith ==
  /\ costFn.Optimism /\ ~costFn.isEclipse /\ ~costFn.isRegolith
  /\ costFn.l1BaseFee = 1 /\ costFn.overhead = 1 /\ costFn.scalar = 1000000
  /\ payload = EmptyTxData
  /\ result.outcome = "pair" /\ result.fee = 1569

\* C10: with Eclipse off the function returns what the earlier function
\* returns on the byte counts of the same payload, the gate on or off.
C10_SameAsEarlierVersion ==
  (Called /\ ~costFn.isEclipse) =>
     /\ result.outcome = resultV1.outcome
     /\ result.outcome \in {"nil", "pair"}
     /\ result.outcome = "pair" =>
          /\ result.fee = resultV1.fee
          /\ result.gasUsed = resultV1.gasUsed

\* C10 witness: both versions returned a fee above zero for a payload of zero
\* and non-zero bytes, before Regolith.
C10_BothVersionsCharged ==
  /\ costFn.Optimism /\ ~costFn.isEclipse /\ ~costFn.isRegolith
  /\ result.outcome = "pair" /\ resultV1.outcome = "pair"
  /\ ZeroBytes(payload) # {} /\ NonZeroBytes(payload) # {}
  /\ result.fee > 0 /\ resultV1.fee = result.fee

\* ------------------------------------------------------- calls side by side

CallIds == {1, 2}

\* a call that has not started
IdleCall ==
  [pc |-> "idle", kind |-> "none", data |-> <<>>, flz |-> NoCall, gas |-> 0,
   res |-> NoResult]

\* the closures and the payloads of the calls made side by side
ConcFns == {f \in CostFns : f.l1BaseFee = 1 /\ f.overhead = 1 /\ f.scalar = 684}

ConcPayloads ==
  {Repeated(w, n, q) : w \in {<<0>>, <<0, 1>>}, n \in {6, MaxLen},
                       q \in {0, MaxLen - 16}}

InitConc ==
  /\ costFn \in ConcFns
  /\ calls = [c \in CallIds |-> IdleCall]
  /\ payload = <<>>
  /\ result = NoResult
  /\ resultV1 = NoResult
  /\ ib = <<>>
  /\ st = NoCall

\* StepFlz with one hash table for all the runs: the table a step leaves is
\* the table of every run in progress
StepFlzSharedTable(cs, c) ==
  LET s2 == FlzStep(cs[c].data, cs[c].flz)
  IN  [k \in DOMAIN cs |->
         IF k = c THEN [cs[k] EXCEPT !.flz = s2]
         ELSE IF cs[k].pc = "flz" /\ ~FlzEnded(cs[k].flz)
              THEN [cs[k] EXCEPT !.flz.ht = s2.ht]
              ELSE cs[k]]

\* a step of the run of FlzCompressLen of call c: n, b, ht, a, i, d, r are
\* locals of that run (lines 204-211)
StepFlz(cs, c) == [cs EXCEPT ![c].flz = FlzStep(cs[c].data, cs[c].flz)]

\* what FlzCompressLen hands to its caller
FlzResult(z) == IF z.ok THEN [outcome |-> "value", n |-> z.n]
                ELSE [outcome |-> "panic"]

\* a call starts: FlzCompressLen(data) (lines 204-211), or f(l1CostData) of
\* the shared closure
ConcStart(c) ==
  /\ calls[c].pc = "idle"
  /\ \E data \in ConcPayloads :
       \/ calls' = [calls EXCEPT ![c] =
             [IdleCall EXCEPT !.pc = "flz", !.kind = "flz", !.data = data,
                              !.flz = FlzStart(data)]]
       \/ calls' = [calls EXCEPT ![c] =
             [IdleCall EXCEPT !.pc = "entry", !.kind = "cost", !.data = data]]
  /\ UNCHANGED <<ib, st, costFn, payload, result, resultV1>>

\* lines 168-191 of a call of the closure, up to the call of FlzCompressLen
ConcEntry(c) ==
  /\ calls[c].pc = "entry"
  /\ calls' = [calls EXCEPT ![c] =
       IF ~costFn.Optimism
       THEN [@ EXCEPT !.pc = "ret", !.res = [outcome |-> "nil", branch |-> "none"]]
       ELSE IF GasBranch(costFn) = "eclipse"
       THEN [@ EXCEPT !.pc = "flz", !.flz = FlzStart(calls[c].data)]
       ELSE [@ EXCEPT !.pc = "fee", !.gas = CountedGas(costFn, calls[c].data)]]
  /\ UNCHANGED <<ib, st, costFn, payload, result, resultV1>>

ConcFlzStep(c) ==
  /\ calls[c].pc = "flz"
  /\ ~FlzEnded(calls[c].flz)
  /\ calls' = StepFlz(calls, c)
  /\ UNCHANGED <<ib, st, costFn, payload, result, resultV1>>

\* FlzCompressLen has returned or panicked (lines 269 and 174)
ConcFlzEnd(c) ==
  /\ calls[c].pc = "flz"
  /\ FlzEnded(calls[c].flz)
  /\ LET z == [ok |-> calls[c].flz.pc = "done", n |-> calls[c].flz.n]
     IN  calls' = [calls EXCEPT ![c] =
           IF @.kind = "flz" THEN [@ EXCEPT !.pc = "ret", !.res = FlzResult(z)]
           ELSE IF z.ok
           THEN [@ EXCEPT !.pc = "fee", !.gas = z.n * TxDataNonZeroGasEIP2028]
           ELSE [@ EXCEPT !.pc = "ret",
                          !.res = [outcome |-> "panic", branch |-> "eclipse"]]]
  /\ UNCHANGED <<ib, st, costFn, payload, result, resultV1>>

\* lines 193-197
ConcFee(c) ==
  /\ calls[c].pc = "fee"
  /\ calls' = [calls EXCEPT ![c] =
       [@ EXCEPT !.pc = "ret",
                 !.res = FeeAndGas(costFn, calls[c].gas, GasBranch(costFn))]]
  /\ UNCHANGED <<ib, st, costFn, payload, result, resultV1>>

\* the caller has taken the result; the next call may start
ConcReturn(c) ==
  /\ calls[c].pc = "ret"
  /\ calls' = [calls EXCEPT ![c] = IdleCall]
  /\ UNCHANGED <<ib, st, costFn, payload, result, resultV1>>

NextConc ==
  \E c \in CallIds :
    \/ ConcStart(c)
    \/ ConcEntry(c)
    \/ ConcFlzStep(c)
    \/ ConcFlzEnd(c)
    \/ ConcFee(c)
    \/ ConcReturn(c)

SpecConc == InitConc /\ [][NextConc]_vars

\* what the call returns when it runs alone
Alone(call) ==
  IF call.kind = "flz" THEN FlzResult(FlzCompressLen(call.data))
  ELSE l1CostFunc(costFn, call.data)

\* C7: whatever the interleaving, a call returns what it returns alone on
\* its inputs; no step changes the oracle values of the closure, the payload
\* of a call in progress, or anything of another call.
C7_CallsAreIndependent ==
  /\ [](\A c \in CallIds : calls[c].pc = "ret" => calls[c].res = Alone(calls[c]))
  /\ [][/\ costFn' = costFn
        /\ \A c \in CallIds :
             /\ calls[c].pc \notin {"idle", "ret"} => calls'[c].data = calls[c].data
             /\ calls'[c] # calls[c] =>
                  \A k \in CallIds \ {c} : calls'[k] = calls[k]]_vars

\* C7 witness: a call of the closure has returned the fee of an estimate with
\* a match while a run of FlzCompressLen on another payload, which wrote to
\* the same table entries, is past a match of its own.
C7_ReturnedBesideRunningCall ==
  /\ calls[1].pc = "ret" /\ calls[1].kind = "cost"
  /\ calls[1].res.outcome = "pair" /\ calls[1].res.branch = "eclipse"
  /\ Matches(calls[1].flz.segs) # {}
  /\ calls[2].pc = "flz" /\ calls[2].flz.pc = "scan"
  /\ calls[2].data # calls[1].data
  /\ Matches(calls[2].flz.segs) # {}
  /\ DOMAIN calls[1].flz.ht \cap DOMAIN calls[2].flz.ht # {}

====
